---- MODULE Spec2Model ----
(***************************************************************************)
(* Model of check_expansion_market_variants.py: the in-memory document     *)
(* store, the relationship index, the structural and relational passes of  *)
(* App._process_items, the issue ledger, and the driver App._main.         *)
(*                                                                         *)
(* Python objects are modelled by reference: every item of every Items     *)
(* list is a cell of `heap`, and lists hold cell numbers, because the code *)
(* keeps references to items (all_parents) after removing them from their  *)
(* lists.  A pass of process_items is one action; its body is the          *)
(* operator ProcessItems, which threads a record `st` of the App's fields  *)
(* through the statements of the code in program order.                    *)
(***************************************************************************)
EXTENDS Integers, Sequences, FiniteSets, TLC

(***************************************************************************)
(* Strings.  Names are compared through str.lower(); "A" and "X" are the   *)
(* upper-case spellings of "a" and "x", "Weapons"/"Ammo"/"Trader" are file *)
(* stems.  "a~" stands for a spelling of "a" with a diacritic, which       *)
(* anyascii folds to "a".  "" is an empty name.                            *)
(***************************************************************************)
Lower(n) ==
    CASE n = "A" -> "a"
      [] n = "B" -> "b"
      [] n = "X" -> "x"
      [] n = "Weapons" -> "weapons"
      [] n = "Ammo" -> "ammo"
      [] n = "Trader" -> "trader"
      [] n = "Missing_Attachments_1" -> "missing_attachments_1"
      [] OTHER -> n

anyascii(n) ==
    CASE n = "a~" -> "a"
      [] OTHER -> n

\* not name.strip()
IsBlank(n) == n \in {"", " "}

LowerNames == {"a", "b", "x", "g", "h", "a~", "", " "}

\* the file name App._process_items generates, with num = 1
MissingFile == "Missing_Attachments_1"

(***************************************************************************)
(* JSON values.  A list-or-not field is [t |-> "list" | "dict" |           *)
(* "scalar", v |-> <<...>>]: v holds a list's elements or a dict's keys.   *)
(* A missing key reads as its .get() default.                              *)
(***************************************************************************)
List(s) == [t |-> "list", v |-> s]
Dict(s) == [t |-> "dict", v |-> s]
Scalar == [t |-> "scalar", v |-> <<>>]
NoKey == [t |-> "none", v |-> <<>>]

\* an item that is a JSON object
Item(c, vs, as) == [obj |-> TRUE, ClassName |-> c, Variants |-> vs, SpawnAttachments |-> as]
\* an item that is not a JSON object (a number, a string)
NonObject == [obj |-> FALSE, ClassName |-> "", Variants |-> List(<<>>), SpawnAttachments |-> List(<<>>)]

\* "Name:buy_sell" of a trader's Categories; buy_sell = "" when there is no colon
Category(n, bs) == [name |-> n, buy_sell |-> bs]

\* a document: shape is the JSON type of its top level; Items.v holds the
\* elements of an Items list, keys the keys of an Items object; live is FALSE
\* once self.folders[folder][file] has been rebound to another object
Doc(folder, file, shape, cats, items) ==
    [folder |-> folder, file |-> file, shape |-> shape, Categories |-> cats,
     Items |-> items, keys |-> <<>>, live |-> TRUE]

\* a document whose Items is an object with these keys
KeyedDoc(folder, file, cats, keys) ==
    [Doc(folder, file, "dict", cats, Dict(<<>>)) EXCEPT !.keys = keys]

(***************************************************************************)
(* Sequence helpers                                                        *)
(***************************************************************************)
SeqRemoveAt(s, k) ==
    [j \in 1..(Len(s) - 1) |-> IF j < k THEN s[j] ELSE s[j + 1]]

\* index of the first element of s for which P holds, 0 if none
FirstIndex(s, P(_)) ==
    IF \E j \in 1..Len(s) : P(s[j])
    THEN CHOOSE j \in 1..Len(s) : P(s[j]) /\ \A k \in 1..(j - 1) : ~P(s[k])
    ELSE 0

\* list.remove(x) on a list of names; the list unchanged if x is absent
RemoveFirst(s, x) ==
    LET k == FirstIndex(s, LAMBDA e : e = x)
    IN  IF k = 0 THEN s ELSE SeqRemoveAt(s, k)

InSeq(x, s) == \E j \in 1..Len(s) : s[j] = x

(***************************************************************************)
(* The App object during a pass.  `st` holds the fields of App and the     *)
(* locals that outlive one statement:                                      *)
(*   docs, heap          self.folders (documents in folder-then-discovery  *)
(*                       order) and the item objects they refer to         *)
(*   all_parents         lower name -> item object (0: no entry)           *)
(*   all_variants        lower name -> list of parent lower names;         *)
(*   all_variants_keys   the keys of that defaultdict (reading a missing   *)
(*                       key creates it)                                   *)
(*   item_name_to_file_path, item_name_to_data                             *)
(*                       lower name -> file / document ("" / 0: no entry)  *)
(*   issues              self.issues in key insertion order                *)
(*   modified_files      path -> document                                  *)
(*   dry, nonint         options["--dry-run"], options["--noninteractive"] *)
(*   answers             what input() will return, "y" as TRUE             *)
(*   i_bound             whether the local `i` of _process_items is bound  *)
(*   crashed             an exception left _process_items                  *)
(*   ret, str            the boolean / the name the last called method     *)
(*                       returned                                          *)
(***************************************************************************)
Crash(st) == [st EXCEPT !.crashed = TRUE]

\* the rest of a statement sequence, skipped once an exception is in flight
Then(st, Rest(_)) == IF st.crashed THEN st ELSE Rest(st)

KeyIndex(issues, folder, file) ==
    FirstIndex(issues, LAMBDA e : e.folder = folder /\ e.file = file)

\* Issue(msg, critical)
Issue(st, msg, critical) ==
    [id |-> st.next_issue, msg |-> msg, critical |-> critical, fixed |-> FALSE]

\* App._add_issue
AddIssue(st, folder, file, msg, critical) ==
    [st EXCEPT
       !.issues = IF KeyIndex(st.issues, folder, file) = 0
                  THEN Append(@, [folder |-> folder, file |-> file,
                                  list |-> <<Issue(st, msg, critical)>>,
                                  fixed_count |-> 0])
                  ELSE [@ EXCEPT ![KeyIndex(st.issues, folder, file)].list =
                                     Append(@, Issue(st, msg, critical))],
       !.issues_count = @ + 1,
       !.next_issue = @ + 1]

\* self.modified_files[file_path] = data
PutModified(modified, folder, file, data) ==
    {m \in modified : ~(m.folder = folder /\ m.file = file)}
        \cup {[folder |-> folder, file |-> file, data |-> data]}

\* if not dry_run and self.issues[file_path]: ... fixed_count += 1
CountFixed(st, k) ==
    IF ~st.dry /\ k # 0 /\ Len(st.issues[k].list) > 0
    THEN [st EXCEPT !.issues[k].fixed_count = @ + 1, !.fixed_count = @ + 1]
    ELSE st

\* App._fix
Fix(st, folder, file, data) ==
    CountFixed([st EXCEPT !.modified_files = PutModified(@, folder, file, data)],
               KeyIndex(st.issues, folder, file))

\* list(self.issues.values())[-1][-1].fixed = True
MarkLastFixed(st) ==
    [st EXCEPT !.issues[Len(st.issues)].list[Len(st.issues[Len(st.issues)].list)].fixed = TRUE]

\* App._confirm_fix; the answer is left in ret
ConfirmFix(st, folder, file, data) ==
    IF st.dry
    THEN [st EXCEPT !.ret = FALSE]
    ELSE IF ~st.nonint
    THEN IF st.answers = <<>>
         THEN [Crash(st) EXCEPT !.ret = FALSE]
         ELSE IF ~Head(st.answers)
         THEN [st EXCEPT !.answers = Tail(@), !.ret = FALSE]
         ELSE [Fix([st EXCEPT !.answers = Tail(@)], folder, file, data) EXCEPT !.ret = TRUE]
    ELSE [Fix(MarkLastFixed(st), folder, file, data) EXCEPT !.ret = TRUE]

\* self._add_issue(...) followed by self._confirm_fix(...)
Raise(st, folder, file, msg, data) ==
    ConfirmFix(AddIssue(st, folder, file, msg, FALSE), folder, file, data)

\* self._add_issue(..., critical=True) followed by self._fix(...)
RaiseCritical(st, folder, file, msg, critical, data) ==
    Fix(AddIssue(st, folder, file, msg, critical), folder, file, data)

RECURSIVE KeptVariants(_, _, _, _, _)
KeptVariants(vs, k, variant_lower, add, acc) ==
    IF k > Len(vs) THEN acc
    ELSE IF Lower(vs[k]) # variant_lower \/ add
         THEN KeptVariants(vs, k + 1, variant_lower, FALSE, Append(acc, vs[k]))
         ELSE KeptVariants(vs, k + 1, variant_lower, add, acc)

\* App._update_variants
UpdateVariants(st, variant_lower, parent, add) ==
    [st EXCEPT !.heap[parent].Variants =
        List(KeptVariants(st.heap[parent].Variants.v, 1, variant_lower, add, <<>>))]

\* App._fix_nonascii; the returned name is left in str
FixNonascii(st, data, name, folder, file) ==
    IF anyascii(name) # name
    THEN Then(Raise(st, folder, file, "non-ascii", data),
              LAMBDA s1 : [s1 EXCEPT !.str = IF s1.ret THEN anyascii(name) ELSE name])
    ELSE [st EXCEPT !.str = name]

(***************************************************************************)
(* Structural pass: _process_items, "1) populate global arrays"            *)
(***************************************************************************)
\* list.remove(item): the first element equal to the item (dict equality)
RemoveFirstEqual(heap, ids, id) ==
    IF FirstIndex(ids, LAMBDA e : heap[e] = heap[id]) = 0 THEN ids
    ELSE SeqRemoveAt(ids, FirstIndex(ids, LAMBDA e : heap[e] = heap[id]))

\* for i, tmp in enumerate(duplicate_items): if tmp is duplicate_item: pop(i)
RemoveIdentical(ids, id) ==
    IF FirstIndex(ids, LAMBDA e : e = id) = 0 THEN ids
    ELSE SeqRemoveAt(ids, FirstIndex(ids, LAMBDA e : e = id))

\* lines 279-304: for variant in variants_orig: ... ;
\* if variants != variants_orig: item["Variants"] = variants
RECURSIVE RegisterVariants(_, _, _, _, _, _, _)
RECURSIVE RegisterVariant(_, _, _, _, _, _, _)
RegisterVariants(st, d, id, parent_lower, vs, k, acc) ==
    IF st.crashed THEN st
    ELSE IF k > Len(vs)
    THEN IF acc # vs THEN [st EXCEPT !.heap[id].Variants = List(acc)] ELSE st
    ELSE IF IsBlank(vs[k])
    THEN Then(Raise(st, st.docs[d].folder, st.docs[d].file, "empty variant", d),
              LAMBDA s1 : IF s1.ret
                          THEN RegisterVariants(s1, d, id, parent_lower, vs, k + 1, acc)
                          ELSE RegisterVariant(s1, d, id, parent_lower, vs, k, acc))
    ELSE RegisterVariant(st, d, id, parent_lower, vs, k, acc)

\* lines 293-299: the variant is kept and indexed under its parent
RegisterVariant(st, d, id, parent_lower, vs, k, acc) ==
    Then(FixNonascii(st, d, vs[k], st.docs[d].folder, st.docs[d].file),
         LAMBDA s2 : RegisterVariants(
                         [s2 EXCEPT
                            !.all_variants[Lower(s2.str)] = Append(@, parent_lower),
                            !.all_variants_keys = @ \cup {Lower(s2.str)}],
                         d, id, parent_lower, vs, k + 1, Append(acc, s2.str)))

\* the existing definition goes when the new one has the larger combined count
KeepNewCombined(st, id, existing) ==
    Len(st.heap[existing].Variants.v) + Len(st.heap[existing].SpawnAttachments.v)
        < Len(st.heap[id].Variants.v) + Len(st.heap[id].SpawnAttachments.v)

\* lines 246-256: the existing definition goes when the new one has more
\* variants or more attachments
KeepNew(st, id, existing) ==
    \/ Len(st.heap[existing].Variants.v) < Len(st.heap[id].Variants.v)
    \/ Len(st.heap[existing].SpawnAttachments.v) < Len(st.heap[id].SpawnAttachments.v)

\* lines 240-277: duplicate identity resolution
Duplicate(st, d, id, parent_lower, duplicate_data, duplicate_file, duplicate_item) ==
    Then(Raise(st, st.docs[d].folder, duplicate_file, "duplicate", duplicate_data),
         LAMBDA s1 : IF s1.ret
                     THEN [s1 EXCEPT !.docs[duplicate_data].Items.v =
                                         RemoveIdentical(@, duplicate_item)]
                     ELSE s1)

\* lines 240-304: duplicate identity resolution, or registration
RegisterItem(st, d, id, parent) ==
    IF st.all_parents[Lower(parent)] # 0
    THEN IF KeepNew(st, id, st.all_parents[Lower(parent)])
         THEN Duplicate(st, d, id, Lower(parent),
                        st.item_name_to_data[Lower(parent)],
                        st.item_name_to_file_path[Lower(parent)],
                        st.all_parents[Lower(parent)])
         ELSE Duplicate(st, d, id, Lower(parent), d, st.docs[d].file, id)
    ELSE RegisterVariants(
             [st EXCEPT !.all_parents[Lower(parent)] = id,
                        !.item_name_to_file_path[Lower(parent)] = st.docs[d].file,
                        !.item_name_to_data[Lower(parent)] = d],
             d, id, Lower(parent), st.heap[id].Variants.v, 1, <<>>)

\* lines 214-238: Variants / SpawnAttachments that are not lists
CheckLists(st, d, id, parent) ==
    IF st.heap[id].Variants.t # "list"
    THEN Then(RaiseCritical(st, st.docs[d].folder, st.docs[d].file,
                            "Variants not a list", TRUE, d),
              LAMBDA s1 : IF s1.heap[id].Variants.t = "dict"
                          THEN [s1 EXCEPT !.heap[id].Variants = Dict(<<>>)]
                          ELSE Crash(s1))
    ELSE IF st.heap[id].SpawnAttachments.t # "list"
    THEN Then(RaiseCritical(st, st.docs[d].folder, st.docs[d].file,
                            "SpawnAttachments not a list", TRUE, d),
              LAMBDA s1 : IF s1.heap[id].SpawnAttachments.t = "dict"
                          THEN [s1 EXCEPT !.heap[id].SpawnAttachments = Dict(<<>>)]
                          ELSE Crash(s1))
    ELSE RegisterItem(st, d, id, parent)

\* lines 181-212: one iteration of `for i, item in enumerate(list(items))`
StructuralItem(st, d, id) ==
    IF ~st.heap[id].obj
    THEN Then(RaiseCritical(st, st.docs[d].folder, st.docs[d].file,
                            "item not an object", TRUE, d),
              LAMBDA s1 : [s1 EXCEPT !.docs[d].Items.v = RemoveFirstEqual(s1.heap, @, id)])
    ELSE IF IsBlank(st.heap[id].ClassName)
    THEN Then(Raise(st, st.docs[d].folder, st.docs[d].file, "empty ClassName", d),
              LAMBDA s1 : IF s1.ret
                          THEN [s1 EXCEPT !.docs[d].Items.v =
                                              RemoveFirstEqual(s1.heap, @, id)]
                          ELSE s1)
    ELSE Then(FixNonascii(st, d, st.heap[id].ClassName, st.docs[d].folder, st.docs[d].file),
              LAMBDA s1 : CheckLists(
                              IF s1.str # s1.heap[id].ClassName
                              THEN [s1 EXCEPT !.heap[id].ClassName = s1.str]
                              ELSE s1,
                              d, id, s1.str))

RECURSIVE StructuralItems(_, _, _, _)
StructuralItems(st, d, snapshot, k) ==
    IF st.crashed \/ k > Len(snapshot) THEN st
    ELSE StructuralItems(StructuralItem([st EXCEPT !.i_bound = TRUE], d, snapshot[k]),
                         d, snapshot, k + 1)

\* lines 139-147: a document that is not an object; the message reads the
\* loop variable `i`, which is unbound until an item loop has run
NonDictDoc(st, d) ==
    IF ~st.i_bound
    THEN Crash(st)
    ELSE Then(RaiseCritical(st, st.docs[d].folder, st.docs[d].file,
                            "data not an object", TRUE, d),
              LAMBDA s1 : IF s1.docs[d].shape = "list"
                          THEN [s1 EXCEPT !.docs[d].Items = List(<<>>)]
                          ELSE Crash(s1))

\* lines 137-180: one iteration of `for file_path_rel, data in categories.items()`
StructuralDoc(st, d) ==
    IF st.docs[d].shape # "dict"
    THEN NonDictDoc(st, d)
    ELSE IF st.docs[d].Categories.t # "none"
    THEN st
    ELSE IF st.docs[d].Items.t \notin {"list", "nested", "none"}
    THEN Then(RaiseCritical(st, st.docs[d].folder, st.docs[d].file,
                            "Items not a list", TRUE, d),
              LAMBDA s1 : [s1 EXCEPT !.docs[d].Items = List(<<>>), !.docs[d].keys = <<>>])
    ELSE IF st.docs[d].Items.t = "nested"
    THEN Then(RaiseCritical(st, st.docs[d].folder, st.docs[d].file,
                            "Items nested", FALSE, d),
              LAMBDA s1 : StructuralItems(
                              [s1 EXCEPT !.docs[d].Items = List(st.docs[d].Items.v)],
                              d, st.docs[d].Items.v, 1))
    ELSE StructuralItems(st, d, st.docs[d].Items.v, 1)

RECURSIVE StructuralDocs(_, _, _)
StructuralDocs(st, folder, d) ==
    IF st.crashed \/ d > Len(st.docs) THEN st
    ELSE IF st.docs[d].folder = folder /\ st.docs[d].live
    THEN StructuralDocs(StructuralDoc(st, d), folder, d + 1)
    ELSE StructuralDocs(st, folder, d + 1)

\* lines 136-304: `for folder_path, categories in self.folders.items()`
RECURSIVE StructuralPass(_, _, _)
StructuralPass(st, folders, idx) ==
    IF st.crashed \/ idx > Len(folders) THEN st
    ELSE StructuralPass(StructuralDocs(st, folders[idx], 1), folders, idx + 1)

(***************************************************************************)
(* Relational pass: _process_variant                                       *)
(***************************************************************************)
\* same_parent_counts[parent_lower] = same_parent_count + 1
Counted(counts, name) ==
    IF FirstIndex(counts, LAMBDA c : c.name = name) = 0
    THEN Append(counts, [name |-> name, count |-> 1])
    ELSE [counts EXCEPT ![FirstIndex(counts, LAMBDA c : c.name = name)].count = @ + 1]

\* lines 472-487: `for parent_lower in parents`, which removes from the list
\* it iterates: the iterator is a position in the live list
RECURSIVE SelfVariantLoop(_, _, _, _, _)
SelfVariantLoop(st, d, id, variant_lower, idx) ==
    IF st.crashed \/ idx > Len(st.all_variants[variant_lower]) THEN st
    ELSE IF variant_lower = st.all_variants[variant_lower][idx]
    THEN Then(ConfirmFix(
                  [AddIssue(st, st.docs[d].folder, st.docs[d].file,
                            "lists itself as a variant", FALSE)
                      EXCEPT !.all_variants[variant_lower] = RemoveFirst(@, variant_lower)],
                  st.docs[d].folder, st.docs[d].file, d),
              LAMBDA s3 : SelfVariantLoop(
                              IF s3.ret THEN UpdateVariants(s3, variant_lower, id, FALSE)
                              ELSE s3,
                              d, id, variant_lower, idx + 1))
    ELSE SelfVariantLoop(
             [st EXCEPT !.same_parent_counts =
                            Counted(@, st.all_variants[variant_lower][idx])],
             d, id, variant_lower, idx + 1)

\* lines 491-503
RECURSIVE OwnVariantsLoop(_, _, _, _, _)
OwnVariantsLoop(st, d, variant_lower, parents, idx) ==
    IF st.crashed \/ idx > Len(parents) THEN st
    ELSE IF parents[idx] # variant_lower
    THEN Then(Raise(st, st.docs[d].folder, st.docs[d].file,
                    "lists own variants but is a variant", d),
              LAMBDA s1 : OwnVariantsLoop(
                              IF s1.ret
                              THEN UpdateVariants(s1, variant_lower,
                                                  s1.all_parents[parents[idx]], FALSE)
                              ELSE s1,
                              d, variant_lower, parents, idx + 1))
    ELSE OwnVariantsLoop(st, d, variant_lower, parents, idx + 1)

\* lines 489-503: if variant_item and variant_item.get("Variants")
OwnVariants(st, d, variant_lower) ==
    IF st.all_parents[variant_lower] # 0
       /\ st.heap[st.all_parents[variant_lower]].Variants.v # <<>>
    THEN OwnVariantsLoop(st, d, variant_lower, st.all_variants[variant_lower], 1)
    ELSE st

\* while same_parent_count > 1: parents.remove(parent_lower)
RECURSIVE RemoveTimes(_, _, _)
RemoveTimes(parents, name, n) ==
    IF n <= 0 THEN parents ELSE RemoveTimes(RemoveFirst(parents, name), name, n - 1)

\* lines 506-523
RECURSIVE SameParentLoop(_, _, _, _, _)
SameParentLoop(st, d, variant_lower, counts, idx) ==
    IF st.crashed \/ idx > Len(counts) THEN st
    ELSE IF counts[idx].count > 1
    THEN Then(ConfirmFix(
                  [AddIssue(st, st.docs[d].folder, st.docs[d].file,
                            "lists variant several times", FALSE)
                      EXCEPT !.all_variants[variant_lower] =
                                 RemoveTimes(@, counts[idx].name, counts[idx].count - 1)],
                  st.docs[d].folder, st.docs[d].file, d),
              LAMBDA s3 : SameParentLoop(
                              IF s3.ret
                              THEN UpdateVariants(s3, variant_lower,
                                                  s3.all_parents[counts[idx].name], TRUE)
                              ELSE s3,
                              d, variant_lower, counts, idx + 1))
    ELSE SameParentLoop(st, d, variant_lower, counts, idx + 1)

\* for parent_lower in parents[1:]: self._update_variants(...)
RECURSIVE StripOthers(_, _, _, _)
StripOthers(st, variant_lower, parents, idx) ==
    IF idx > Len(parents) THEN st
    ELSE StripOthers(UpdateVariants(st, variant_lower, st.all_parents[parents[idx]], FALSE),
                     variant_lower, parents, idx + 1)

\* lines 525-538
MultiParent(st, d, variant_lower) ==
    IF st.crashed \/ Len(st.all_variants[variant_lower]) <= 1 THEN st
    ELSE Then(Raise(st, st.docs[d].folder, st.docs[d].file,
                    "variant of more than one item", d),
              LAMBDA s1 : [(IF s1.ret
                            THEN StripOthers(s1, variant_lower,
                                             s1.all_variants[variant_lower], 2)
                            ELSE s1)
                              EXCEPT !.all_variants[variant_lower] = <<@[1]>>])

\* lines 505-538: if len(parents) > 1
MultiParents(st, d, variant_lower) ==
    IF Len(st.all_variants[variant_lower]) > 1
    THEN MultiParent(SameParentLoop(st, d, variant_lower, st.same_parent_counts, 1),
                     d, variant_lower)
    ELSE st

\* lines 547-554: variant_data["Items"].remove(variant) raises ValueError when
\* no equal item is in that list
MoveVariant(st, d, variant_lower, variant_data, variant) ==
    IF ~\E j \in 1..Len(st.docs[variant_data].Items.v) :
            st.heap[st.docs[variant_data].Items.v[j]] = st.heap[variant]
    THEN Crash(st)
    ELSE [Fix([st EXCEPT !.docs[variant_data].Items.v =
                             RemoveFirstEqual(st.heap, @, variant)],
              st.docs[d].folder, st.item_name_to_file_path[variant_lower], variant_data)
             EXCEPT !.docs[d].Items.v = Append(@, variant)]

\* lines 540-556
CrossCategory(st, d, variant_lower) ==
    IF st.crashed \/ st.all_variants[variant_lower] = <<>> THEN st
    ELSE IF st.item_name_to_file_path[variant_lower] # ""
            /\ st.item_name_to_file_path[variant_lower] # st.docs[d].file
    THEN Then(Raise(st, st.docs[d].folder, st.docs[d].file,
                    "variant in a different category", d),
              LAMBDA s1 : IF s1.ret
                          THEN MoveVariant(s1, d, variant_lower,
                                           s1.item_name_to_data[variant_lower],
                                           s1.all_parents[variant_lower])
                          ELSE s1)
    ELSE st

\* App._process_variant; `parents` is self.all_variants[variant_lower]
ProcessVariant(st, d, id, variant_lower) ==
    Then(SelfVariantLoop([st EXCEPT !.all_variants_keys = @ \cup {variant_lower},
                                    !.same_parent_counts = <<>>],
                         d, id, variant_lower, 1),
         LAMBDA s1 :
             Then(OwnVariants(s1, d, variant_lower),
                  LAMBDA s2 :
                      Then(MultiParents(s2, d, variant_lower),
                           LAMBDA s3 : CrossCategory(s3, d, variant_lower))))

(***************************************************************************)
(* Relational pass: trader documents                                       *)
(***************************************************************************)
\* f"{category}:{buy_sell}"
FormatCategory(category, buy_sell) ==
    Category(category, IF buy_sell = 3 THEN "3" ELSE "1")

\* lines 714-734: `for parent_lower in parents` of _check_add_trader_category
RECURSIVE TraderParentsLoop(_, _, _, _, _)
TraderParentsLoop(st, d, parents, buy_sell, idx) ==
    IF st.crashed \/ idx > Len(parents) THEN st
    ELSE IF InSeq(parents[idx], st.item_names_lower) THEN st
    ELSE IF ~InSeq(Lower(st.item_name_to_file_path[parents[idx]]), st.category_names_lower)
    THEN Then(ConfirmFix(
                  [AddIssue(st, st.docs[d].folder, st.docs[d].file,
                            "category missing from trader", FALSE)
                      EXCEPT !.category_names_lower =
                                 Append(@, Lower(st.item_name_to_file_path[parents[idx]]))],
                  st.docs[d].folder, st.docs[d].file, d),
              LAMBDA s3 : TraderParentsLoop(
                              IF s3.ret
                              THEN [s3 EXCEPT !.docs[d].Categories.v =
                                       Append(@, FormatCategory(
                                                     s3.item_name_to_file_path[parents[idx]],
                                                     buy_sell))]
                              ELSE s3,
                              d, parents, buy_sell, idx + 1))
    ELSE TraderParentsLoop(st, d, parents, buy_sell, idx + 1)

\* App._check_add_trader_category
CheckAddTraderCategory(st, d, item_name, buy_sell, is_variant, is_attachment) ==
    IF st.crashed \/ ~is_variant \/ ~is_attachment THEN st
    ELSE TraderParentsLoop([st EXCEPT !.all_variants_keys = @ \cup {Lower(item_name)}],
                           d, st.all_variants[Lower(item_name)], buy_sell, 1)

\* the variants loop of _check_add_trader_categories
RECURSIVE TraderVariantsLoop(_, _, _, _, _, _)
TraderVariantsLoop(st, d, variants, buy_sell, is_attachment, idx) ==
    IF st.crashed \/ idx > Len(variants) THEN st
    ELSE TraderVariantsLoop(
             CheckAddTraderCategory(st, d, variants[idx], buy_sell, TRUE, is_attachment),
             d, variants, buy_sell, is_attachment, idx + 1)

\* App._check_add_trader_categories.  Python raises RecursionError when the
\* call depth passes its limit; a chain of attachments that is longer than the
\* number of item objects repeats an item, so it never ends and reaches the
\* limit whatever its value.
RECURSIVE CheckAddTraderCategories(_, _, _, _, _, _, _)
RECURSIVE TraderAttachmentsLoop(_, _, _, _, _)
CheckAddTraderCategories(st, d, item, buy_sell, is_variant, is_attachment, level) ==
    IF st.crashed THEN st
    ELSE IF level > Len(st.heap) + 1 THEN Crash(st)
    ELSE Then(TraderVariantsLoop(st, d, st.heap[item].Variants.v, buy_sell,
                                 is_attachment, 1),
              LAMBDA s1 : TraderAttachmentsLoop(s1, d, s1.heap[item].SpawnAttachments.v,
                                                level, 1))

\* the attachments loop of _check_add_trader_categories
TraderAttachmentsLoop(st, d, atts, level, idx) ==
    IF st.crashed \/ idx > Len(atts) THEN st
    ELSE Then(CheckAddTraderCategory(st, d, atts[idx], 3,
                                     Lower(atts[idx]) \in st.all_variants_keys, TRUE),
              LAMBDA s1 : TraderAttachmentsLoop(
                              IF s1.all_parents[Lower(atts[idx])] # 0
                              THEN CheckAddTraderCategories(
                                       s1, d, s1.all_parents[Lower(atts[idx])], 3,
                                       Lower(atts[idx]) \in st.all_variants_keys, TRUE,
                                       level + 1)
                              ELSE s1,
                              d, atts, level, idx + 1))

\* lines 576-596: trader items that exist nowhere in the market
RECURSIVE TraderItemsLoop(_, _, _, _)
TraderItemsLoop(st, d, trader_items_copy, idx) ==
    IF st.crashed \/ idx > Len(trader_items_copy) THEN st
    ELSE IF /\ st.all_parents[Lower(trader_items_copy[idx])] = 0
            /\ Lower(trader_items_copy[idx]) \notin st.all_variants_keys
    THEN Then(Raise(st, st.docs[d].folder, st.docs[d].file,
                    "item does not exist in market", d),
              LAMBDA s1 : TraderItemsLoop(
                              IF s1.ret
                              THEN [s1 EXCEPT !.docs[d].keys =
                                       RemoveFirst(@, trader_items_copy[idx])]
                              ELSE [s1 EXCEPT !.item_names_lower =
                                       Append(@, Lower(trader_items_copy[idx]))],
                              d, trader_items_copy, idx + 1))
    ELSE TraderItemsLoop(
             [st EXCEPT !.item_names_lower = Append(@, Lower(trader_items_copy[idx]))],
             d, trader_items_copy, idx + 1)

\* for item in items: self._check_add_trader_categories(item, 1, False, False, 0, ...)
RECURSIVE CategoryItemsLoop(_, _, _, _)
CategoryItemsLoop(st, d, items, idx) ==
    IF st.crashed \/ idx > Len(items) THEN st
    ELSE CategoryItemsLoop(
             CheckAddTraderCategories(st, d, items[idx], 1, FALSE, FALSE, 0),
             d, items, idx + 1)

\* self.categories[folder].get(category_name_lower): the document loaded from
\* that folder under that stem (0: none); generated documents are not in
\* self.categories
CategoryData(st, folder, category_name_lower) ==
    FirstIndex(st.docs, LAMBDA doc : /\ doc.folder = folder
                                      /\ doc.file # MissingFile
                                      /\ Lower(doc.file) = category_name_lower)

\* lines 600-621: the category document c of one folder (0: the folder has none)
CategoryFolder(st, d, c) ==
    IF c = 0 THEN st
    ELSE IF st.docs[c].shape # "dict" THEN Crash(st)
    ELSE IF st.docs[c].Categories.t # "none" /\ st.docs[c].Categories.v # <<>> THEN st
    ELSE IF st.docs[c].Items.t = "dict"
    THEN IF st.docs[c].keys = <<>> THEN st ELSE Crash(st)
    ELSE CategoryItemsLoop(st, d, st.docs[c].Items.v, 1)

\* lines 599-621: `for category_folder_path, categories in self.categories.items()`
RECURSIVE CategoryFoldersLoop(_, _, _, _, _)
CategoryFoldersLoop(st, d, category_name_lower, folders, idx) ==
    IF st.crashed \/ idx > Len(folders) THEN st
    ELSE CategoryFoldersLoop(
             CategoryFolder(st, d, CategoryData(st, folders[idx], category_name_lower)),
             d, category_name_lower, folders, idx + 1)

\* lines 598: `for category_name_lower in category_names_lower`, a list that
\* _check_add_trader_category appends to while it is iterated
RECURSIVE CategoryNamesLoop(_, _, _, _)
CategoryNamesLoop(st, d, folders, idx) ==
    IF st.crashed \/ idx > Len(st.category_names_lower) THEN st
    ELSE CategoryNamesLoop(
             CategoryFoldersLoop(st, d, st.category_names_lower[idx], folders, 1),
             d, folders, idx + 1)

\* App._process_trader_categories
ProcessTraderCategories(st, d, folders) ==
    Then(TraderItemsLoop(
             [st EXCEPT
                !.category_names_lower =
                    [j \in 1..Len(st.docs[d].Categories.v) |->
                        Lower(st.docs[d].Categories.v[j].name)],
                !.item_names_lower = <<>>],
             d, st.docs[d].keys, 1),
         LAMBDA s1 : CategoryNamesLoop(s1, d, folders, 1))

(***************************************************************************)
(* Relational pass: _process_items, "2) process"                           *)
(***************************************************************************)
InToAdd(to_add, name) == \E j \in 1..Len(to_add) : to_add[j].name = name

\* the placeholder item of lines 380-390
Placeholder(attachment_name) == Item(attachment_name, List(<<>>), List(<<>>))

\* lines 363-366: the name is no item, no variant and not yet noted
Unknown(st, attachment_name_lower) ==
    /\ st.all_parents[attachment_name_lower] = 0
    /\ attachment_name_lower \notin st.all_variants_keys
    /\ ~InToAdd(st.attachments_to_add, attachment_name_lower)

\* lines 378-395: attachments_to_add[attachment_name_lower] = the placeholder
\* item, or None when the fix was not confirmed
ToAdd(st, attachment_name) ==
    IF st.ret
    THEN [st EXCEPT !.heap = Append(@, Placeholder(attachment_name)),
                    !.attachments_to_add =
                        Append(@, [name |-> Lower(attachment_name),
                                   item |-> Len(st.heap) + 1])]
    ELSE [st EXCEPT !.attachments_to_add =
                        Append(@, [name |-> Lower(attachment_name), item |-> 0])]

\* lines 347-397: `for attachment_name in atts_orig`
RECURSIVE AttachmentsLoop(_, _, _, _, _, _)
RECURSIVE Attachment(_, _, _, _, _, _)
AttachmentsLoop(st, d, id, atts_orig, idx, atts) ==
    IF st.crashed THEN st
    ELSE IF idx > Len(atts_orig)
    THEN IF List(atts) # st.heap[id].SpawnAttachments
         THEN [st EXCEPT !.heap[id].SpawnAttachments = List(atts)]
         ELSE st
    ELSE IF IsBlank(atts_orig[idx])
    THEN Then(Raise(st, st.docs[d].folder, st.docs[d].file, "empty attachment", d),
              LAMBDA s1 : IF s1.ret
                          THEN AttachmentsLoop(s1, d, id, atts_orig, idx + 1, atts)
                          ELSE Attachment(s1, d, id, atts_orig, idx, atts))
    ELSE Attachment(st, d, id, atts_orig, idx, atts)

\* lines 357-397: the attachment is kept and resolved
Attachment(st, d, id, atts_orig, idx, atts) ==
    Then(FixNonascii(st, d, atts_orig[idx], st.docs[d].folder, st.docs[d].file),
         LAMBDA s2 :
             IF Unknown(s2, Lower(s2.str))
             THEN Then(Raise(s2, s2.docs[d].folder, s2.docs[d].file,
                             "attachment does not exist in market", d),
                       LAMBDA s3 : AttachmentsLoop(ToAdd(s3, s3.str), d, id, atts_orig,
                                                   idx + 1, Append(atts, s3.str)))
             ELSE AttachmentsLoop(s2, d, id, atts_orig, idx + 1, Append(atts, s2.str)))

\* lines 332-341: `for variant in variants`, over the list object the item had
\* when the loop started
RECURSIVE VariantsLoop(_, _, _, _, _)
VariantsLoop(st, d, id, variants, idx) ==
    IF st.crashed \/ idx > Len(variants) THEN st
    ELSE VariantsLoop(ProcessVariant(st, d, id, Lower(variants[idx])),
                      d, id, variants, idx + 1)

\* lines 343-397: the attachments of one item; a value without len() or
\* iteration raises TypeError
ItemAttachments(st, d, id) ==
    IF st.heap[id].SpawnAttachments.t = "scalar" THEN Crash(st)
    ELSE AttachmentsLoop(st, d, id, st.heap[id].SpawnAttachments.v, 1, <<>>)

\* lines 325-397: `for item in items`, over the live Items list of the document
RECURSIVE RelationalItems(_, _, _)
RelationalItems(st, d, idx) ==
    IF st.crashed \/ idx > Len(st.docs[d].Items.v) THEN st
    ELSE IF st.heap[st.docs[d].Items.v[idx]].Variants.t = "scalar" THEN Crash(st)
    ELSE Then(VariantsLoop(st, d, st.docs[d].Items.v[idx],
                           st.heap[st.docs[d].Items.v[idx]].Variants.v, 1),
              LAMBDA s1 : RelationalItems(
                              ItemAttachments(s1, d, st.docs[d].Items.v[idx]),
                              d, idx + 1))

\* lines 310-323: one iteration of `for file_path_rel, data in categories.items()`
RelationalDoc(st, d, folders) ==
    IF st.docs[d].shape # "dict" THEN Crash(st)
    ELSE IF st.docs[d].Categories.t # "none" THEN ProcessTraderCategories(st, d, folders)
    ELSE RelationalItems(st, d, 1)

RECURSIVE RelationalDocs(_, _, _, _)
RelationalDocs(st, folder, folders, d) ==
    IF st.crashed \/ d > Len(st.docs) THEN st
    ELSE IF st.docs[d].folder = folder /\ st.docs[d].live
    THEN RelationalDocs(RelationalDoc(st, d, folders), folder, folders, d + 1)
    ELSE RelationalDocs(st, folder, folders, d + 1)

RECURSIVE PlaceholderItems(_, _)
PlaceholderItems(to_add, idx) ==
    IF idx > Len(to_add) THEN <<>>
    ELSE IF to_add[idx].item # 0
    THEN <<to_add[idx].item>> \o PlaceholderItems(to_add, idx + 1)
    ELSE PlaceholderItems(to_add, idx + 1)

\* lines 399-423: the generated document.  No Missing_Attachments_<n>.json is
\* on disk before save_changes, so num is 1; the document of an earlier pass
\* under that name is replaced by the new object.
MissingAttachments(st, folder) ==
    IF st.crashed \/ st.attachments_to_add = <<>> THEN st
    ELSE [st EXCEPT
            !.docs = Append([j \in 1..Len(@) |->
                                IF @[j].folder = folder /\ @[j].file = MissingFile
                                THEN [@[j] EXCEPT !.live = FALSE]
                                ELSE @[j]],
                            Doc(folder, MissingFile, "dict", NoKey,
                                List(PlaceholderItems(st.attachments_to_add, 1)))),
            !.modified_files = PutModified(@, folder, MissingFile, Len(st.docs) + 1)]

\* lines 307-423: `for folder_path, categories in self.folders.items()`
RECURSIVE RelationalPass(_, _, _)
RelationalPass(st, folders, idx) ==
    IF st.crashed \/ idx > Len(folders) THEN st
    ELSE Then(RelationalDocs([st EXCEPT !.attachments_to_add = <<>>],
                             folders[idx], folders, 1),
              LAMBDA s1 : RelationalPass(MissingAttachments(s1, folders[idx]),
                                         folders, idx + 1))

(***************************************************************************)
(* process_items                                                           *)
(***************************************************************************)
NoParents == [n \in LowerNames |-> 0]
NoVariants == [n \in LowerNames |-> <<>>]
NoFiles == [n \in LowerNames |-> ""]

\* the keys of self.folders, in the order load_items filled them (_main
\* loads sorted(folder_paths)); a folder without a loaded file has no key
RECURSIVE FolderSeq(_, _)
FolderSeq(docs, folder) ==
    IF \A j \in 1..Len(docs) : docs[j].folder < folder THEN <<>>
    ELSE IF \E j \in 1..Len(docs) : docs[j].folder = folder
    THEN <<folder>> \o FolderSeq(docs, folder + 1)
    ELSE FolderSeq(docs, folder + 1)

\* issues.remove(issue) for every issue that is not critical
RECURSIVE CriticalOnly(_, _)
CriticalOnly(list, idx) ==
    IF idx > Len(list) THEN <<>>
    ELSE IF list[idx].critical THEN <<list[idx]>> \o CriticalOnly(list, idx + 1)
    ELSE CriticalOnly(list, idx + 1)

\* IssuesDict.clear_noncritical
RECURSIVE ClearNoncritical(_, _)
ClearNoncritical(issues, idx) ==
    IF idx > Len(issues) THEN <<>>
    ELSE IF CriticalOnly(issues[idx].list, 1) = <<>>
    THEN ClearNoncritical(issues, idx + 1)
    ELSE <<[issues[idx] EXCEPT !.list = CriticalOnly(@, 1)]>>
             \o ClearNoncritical(issues, idx + 1)

\* the locals of a pass, which do not outlive it
ResetLocals(st) ==
    [st EXCEPT !.ret = FALSE, !.str = "", !.i_bound = FALSE,
               !.same_parent_counts = <<>>, !.category_names_lower = <<>>,
               !.item_names_lower = <<>>, !.attachments_to_add = <<>>]

\* App._process_items
ProcessItemsBody(st, folders) ==
    RelationalPass(StructuralPass(st, folders, 1), folders, 1)

\* process_items without self.all_parents.clear() and self.all_variants.clear()
BeginPassKeepsIndex(app0, dry, nonint, answers) ==
    [ResetLocals(app0) EXCEPT
       !.dry = dry, !.nonint = nonint, !.answers = answers,
       !.issues = ClearNoncritical(@, 1),
       !.issues_count = 0,
       !.fixed_count = 0,
       !.item_name_to_file_path = NoFiles,
       !.item_name_to_data = NoParents]

\* App.process_items, lines 105-114: the index and the counters start empty,
\* the ledger keeps its critical issues
BeginPass(app0, dry, nonint, answers) ==
    [ResetLocals(app0) EXCEPT
       !.dry = dry, !.nonint = nonint, !.answers = answers,
       !.all_parents = NoParents,
       !.all_variants = NoVariants,
       !.all_variants_keys = {},
       !.issues = ClearNoncritical(@, 1),
       !.issues_count = 0,
       !.fixed_count = 0,
       !.item_name_to_file_path = NoFiles,
       !.item_name_to_data = NoParents]

\* App.process_items, lines 104-124; crashed stands for sys.exit(1)
ProcessItems(app0, dry, nonint, answers) ==
    ResetLocals(ProcessItemsBody(BeginPass(app0, dry, nonint, answers),
                                 FolderSeq(app0.docs, 1)))

\* App.__init__
NewApp ==
    [docs |-> <<>>, heap |-> <<>>,
     all_parents |-> NoParents, all_variants |-> NoVariants, all_variants_keys |-> {},
     item_name_to_file_path |-> NoFiles, item_name_to_data |-> NoParents,
     issues |-> <<>>, issues_count |-> 0, fixed_count |-> 0, next_issue |-> 1,
     modified_files |-> {}, exitcode |-> 0,
     dry |-> FALSE, nonint |-> FALSE, answers |-> <<>>,
     crashed |-> FALSE, ret |-> FALSE, str |-> "", i_bound |-> FALSE,
     same_parent_counts |-> <<>>, category_names_lower |-> <<>>,
     item_names_lower |-> <<>>, attachments_to_add |-> <<>>]

(***************************************************************************)
(* Files and documents.  A file's content is a document whose Items hold   *)
(* the items themselves; json.load gives every item an object of its own.  *)
(***************************************************************************)
HoldsItems(doc) == doc.Categories.t = "none" /\ doc.Items.t \in {"list", "nested"}

\* the content of a document object
Content(doc, heap) ==
    IF HoldsItems(doc)
    THEN [doc EXCEPT !.Items.v = [j \in 1..Len(doc.Items.v) |-> heap[doc.Items.v[j]]]]
    ELSE doc

\* the content of self.folders
RECURSIVE Contents(_, _, _)
Contents(docs, heap, idx) ==
    IF idx > Len(docs) THEN <<>>
    ELSE IF docs[idx].live
    THEN <<Content(docs[idx], heap)>> \o Contents(docs, heap, idx + 1)
    ELSE Contents(docs, heap, idx + 1)

\* App.load_items, for every folder of folder_paths
RECURSIVE LoadFiles(_, _, _)
LoadFiles(app0, files, idx) ==
    IF idx > Len(files) THEN app0
    ELSE LET file == files[idx]
             n == Len(app0.heap)
             data == IF HoldsItems(file)
                     THEN [file EXCEPT !.Items.v = [j \in 1..Len(file.Items.v) |-> n + j]]
                     ELSE file
             heap == IF HoldsItems(file) THEN app0.heap \o file.Items.v ELSE app0.heap
         IN  LoadFiles([app0 EXCEPT !.docs = Append(@, data), !.heap = heap], files, idx + 1)

(***************************************************************************)
(* The inputs of a run: the JSON files of the folders, the options, and    *)
(* whether the folders were found and loaded.                              *)
(***************************************************************************)
MaxPasses == 5
MaxItems == 3
MaxDefects == 2

\* sequences over S of length at most n
SeqsUpTo(S, n) == UNION {[1..k -> S] : k \in 0..n}

Market(folder, file, items) == Doc(folder, file, "dict", NoKey, List(items))
Trader(folder, file, cats, items) == KeyedDoc(folder, file, List(cats), items)

\* Items whose Variants name each other in the ways _process_variant tells
\* apart: none, another name, the own name, the same name twice.
RelationalItems0 ==
    {Item(c, List(vs), List(<<>>)) :
        c \in {"a", "A", "b", "x"}, vs \in {<<>>, <<"x">>, <<"a">>, <<"X", "x">>}}

\* Market files with up to MaxItems such items, in one file or split over two
RelationalFiles ==
    {<<Market(1, "Weapons", items)>> : items \in SeqsUpTo(RelationalItems0, MaxItems)}
    \cup
    UNION {{<<Market(1, "Weapons", SubSeq(items, 1, k)),
              Market(1, "Ammo", SubSeq(items, k + 1, Len(items)))>> :
               k \in 1..(Len(items) - 1)} :
           items \in SeqsUpTo(RelationalItems0, MaxItems)}

\* Items with attachments that resolve to an item, to a variant, or to nothing
AttachmentItems ==
    {Item(c, List(vs), List(as)) :
        c \in {"a", "b"}, vs \in {<<>>, <<"x">>},
        as \in {<<>>, <<"g">>, <<"x">>, <<"g", "h">>, <<"b">>, <<"a">>}}

AttachmentFiles ==
    {<<Market(1, "Weapons", items)>> : items \in SeqsUpTo(AttachmentItems, MaxItems - 1)}

\* Items with the defects of the structural pass
DefectItems ==
    {NonObject,
     Item("a", Dict(<<"k">>), List(<<>>)),
     Item("a", List(<<>>), Dict(<<"k">>)),
     Item("a", Scalar, List(<<>>)),
     Item("", List(<<>>), List(<<>>)),
     Item("a~", List(<<"a~">>), List(<<>>)),
     Item("b", List(<<"", "x">>), List(<<"">>)),
     Item("b", List(<<>>), List(<<"g">>)),
     Item("b", List(<<"b">>), List(<<>>))}

\* Files with the defects of the structural pass
DefectFiles ==
    {<<Market(1, "Weapons", items)>> : items \in SeqsUpTo(DefectItems, MaxDefects)}
    \cup
    {<<Market(1, "Weapons", <<i>>), d>> :
        i \in DefectItems,
        d \in {Doc(1, "Ammo", "list", NoKey, List(<<NonObject>>)),
               Doc(1, "Ammo", "scalar", NoKey, NoKey),
               Doc(1, "Ammo", "dict", NoKey, Scalar),
               KeyedDoc(1, "Ammo", NoKey, <<"k">>),
               Doc(1, "Ammo", "dict", NoKey, NoKey),
               Doc(1, "Ammo", "dict", NoKey,
                   [t |-> "nested", v |-> <<Item("x", List(<<"x">>), List(<<>>))>>])}}
    \cup
    {<<Doc(1, "Ammo", "list", NoKey, List(<<NonObject>>)),
       Market(1, "Weapons", <<Item("b", List(<<"b">>), List(<<>>))>>)>>}

\* A weapon with an attachment, the attachment's category, and a trader
TraderFiles ==
    {<<Market(1, "Weapons", <<Item("a", List(<<>>), List(as))>>),
       Market(1, "Ammo", <<Item("b", List(vs), List(bs))>>),
       Trader(2, "Trader", cats, items)>> :
        as \in {<<"b">>, <<"x">>, <<"g">>},
        vs \in {<<>>, <<"x">>},
        bs \in {<<>>, <<"a">>, <<"b">>},
        cats \in {<<Category("Weapons", "")>>, <<Category("weapons", "1"), Category("Ammo", "3")>>,
                  <<Category("Ammo", "1")>>},
        items \in {<<>>, <<"a">>, <<"b", "h">>}}

FileSets == RelationalFiles \cup AttachmentFiles \cup DefectFiles \cup TraderFiles

VARIABLES
    files,          \* the content of the *.json files of folder_paths
    options,        \* options of _main: [dry, nonint]
    found,          \* "ok", "none" (no folder path), "gone" (load_items fails)
    answer,         \* the answer to "Automatically fix these issues (y/n)?", "" before it
    app,            \* the App object
    pc,             \* position in _main
    results,        \* local results
    tmp,            \* local tmp: [bound, dry, nonint]
    issues_count,   \* local issues_count
    issues,         \* local issues
    exit,           \* the exit status of the process, -1 while it runs
    written,        \* files written by save_changes
    backups,        \* files save_changes made a backup of
    replies,        \* what input() returns to "Automatically fix this issue (y/n)?":
                    \* TRUE for y; asked only by a pass that is neither --dry-run
                    \* nor --noninteractive
    before,         \* history: content of self.folders when the last pass began
    prev,           \* history: the App object when the last pass began
    last,           \* history: mode of the last pass
    passes          \* history: number of calls of process_items

vars == <<files, options, found, answer, app, pc, results, tmp, issues_count, issues, exit,
          written, backups, replies, before, prev, last, passes>>

inputs == <<files, options, found, replies>>

Init ==
    /\ found \in {"ok", "none", "gone"}
    /\ files \in IF found = "ok" THEN FileSets ELSE {<<>>}
    /\ options \in [dry : BOOLEAN, nonint : BOOLEAN]
    /\ answer = ""
    /\ app = NewApp
    /\ pc = "start"
    /\ results = <<>>
    /\ tmp = [bound |-> FALSE, dry |-> FALSE, nonint |-> FALSE]
    /\ issues_count = 0
    /\ issues = <<>>
    /\ exit = -1
    /\ written = {}
    /\ backups = {}
    /\ replies = <<>>
    /\ before = <<>>
    /\ prev = NewApp
    /\ last = "none"
    /\ passes = 0

\* App.process_items, lines 126-132: the returned ledger is a copy whose lists
\* are new Issues objects, so their fixed_count is the class default
Returned(ledger) == [j \in 1..Len(ledger) |-> [ledger[j] EXCEPT !.fixed_count = 0]]

\* process_items(o) called from _main: sys.exit(1) when _process_items raised
CallProcessItems(o, pc_issues, pc_clean) ==
    /\ passes < MaxPasses
    /\ app' = ProcessItems(app, o.dry, o.nonint, <<>>)
    /\ before' = Contents(app.docs, app.heap, 1)
    /\ prev' = app
    /\ last' = IF o.dry THEN "dry" ELSE "batch"
    /\ passes' = passes + 1
    /\ IF app'.crashed
       THEN exit' = 1 /\ pc' = "done"
       ELSE exit' = exit /\ pc' = IF app'.issues_count > 0 THEN pc_issues ELSE pc_clean

\* lines 961-966: results.append(self.load_items(folder_path)); with no folder
\* path an interactive run asks for one and exits on an empty answer
Load ==
    /\ pc = "start"
    /\ IF found = "ok"
       THEN /\ app' = LoadFiles(app, files, 1)
            /\ results' = [j \in 1..Len(FolderSeq(files, 1)) |-> TRUE]
            /\ pc' = "loaded" /\ exit' = exit
       ELSE IF found = "gone"
       THEN /\ results' = <<FALSE>>
            /\ pc' = "loaded" /\ exit' = exit /\ app' = app
       ELSE IF options.nonint
       THEN /\ results' = <<>>
            /\ pc' = "loaded" /\ exit' = exit /\ app' = app
       ELSE /\ exit' = 1 /\ pc' = "done" /\ UNCHANGED <<app, results>>
    /\ UNCHANGED <<inputs, answer, tmp, issues_count, issues, written, backups, before, prev, last,
                   passes>>

\* lines 968-978: the dry-run probe of an interactive run
Probe ==
    /\ pc = "loaded"
    /\ ~options.nonint /\ ~options.dry
    /\ tmp' = [bound |-> TRUE, dry |-> TRUE, nonint |-> options.nonint]
    /\ CallProcessItems(tmp', "prompt", "check")
    /\ issues' = Returned(app'.issues)
    /\ issues_count' = app'.issues_count
    /\ UNCHANGED <<inputs, answer, results, written, backups>>

\* lines 980-984: "Automatically fix these issues (y/n)?" answered y
ApplyFixes ==
    /\ pc = "prompt"
    /\ answer' = "y"
    /\ tmp' = [tmp EXCEPT !.nonint = TRUE, !.dry = FALSE]
    /\ CallProcessItems(tmp', "check", "check")
    /\ UNCHANGED <<inputs, results, issues, issues_count, written, backups>>

\* lines 985-986: any other answer
Decline ==
    /\ pc = "prompt"
    /\ answer' = "n"
    /\ exit' = 1
    /\ pc' = "done"
    /\ UNCHANGED <<inputs, app, results, tmp, issues_count, issues, written, backups,
                   before, prev, last, passes>>

\* lines 988-992: the only pass of a --noninteractive or --dry-run run
SinglePass ==
    /\ pc = "loaded"
    /\ options.nonint \/ options.dry
    /\ CallProcessItems(options, "check", "check")
    /\ issues' = Returned(app'.issues)
    /\ issues_count' = app'.issues_count
    /\ UNCHANGED <<inputs, answer, results, tmp, written, backups>>

\* lines 997-1003; tmp is unbound after the else branch of line 988, and
\* reading it raises NameError, which ends the process with status 1
CheckFixed ==
    /\ pc = "check"
    /\ IF ~options.dry /\ issues_count > app.fixed_count
       THEN IF tmp.bound
            THEN /\ app' = [app EXCEPT !.issues_count = issues_count]
                 /\ tmp' = [tmp EXCEPT !.nonint = TRUE]
                 /\ pc' = "additional" /\ exit' = exit
            ELSE /\ exit' = 1 /\ pc' = "done" /\ UNCHANGED <<app, tmp>>
       ELSE /\ pc' = "save" /\ UNCHANGED <<app, tmp, exit>>
    /\ UNCHANGED <<inputs, answer, results, issues_count, issues, written, backups, before, prev,
                   last, passes>>

\* lines 1005-1007: while self.fixed_count > 0: self.process_items(tmp)
AdditionalPass ==
    /\ pc = "additional"
    /\ app.fixed_count > 0
    /\ CallProcessItems(tmp, "additional", "additional")
    /\ UNCHANGED <<inputs, answer, results, tmp, issues_count, issues, written, backups>>

\* lines 1009-1011
EndPasses ==
    /\ pc = "additional"
    /\ app.fixed_count = 0
    /\ app' = [app EXCEPT !.issues = issues, !.issues_count = issues_count,
                          !.fixed_count = issues_count]
    /\ pc' = "save"
    /\ UNCHANGED <<inputs, answer, results, tmp, issues_count, issues, exit, written, backups,
                   before, prev, last, passes>>

OnDisk(folder, file) ==
    \E j \in 1..Len(files) : files[j].folder = folder /\ files[j].file = file

\* lines 1013-1030: save_changes and the exit status
Finish ==
    /\ pc = "save"
    /\ IF app.exitcode = 0 /\ ~options.dry
       THEN /\ written' = {[folder |-> m.folder, file |-> m.file,
                            content |-> Content(app.docs[m.data], app.heap)]
                           : m \in app.modified_files}
            /\ backups' = {[folder |-> m.folder, file |-> m.file]
                           : m \in {x \in app.modified_files : OnDisk(x.folder, x.file)}}
       ELSE UNCHANGED <<written, backups>>
    /\ exit' = IF results = <<>> \/ \E j \in 1..Len(results) : ~results[j]
               THEN 1 ELSE app.exitcode
    /\ pc' = "done"
    /\ UNCHANGED <<inputs, answer, app, results, tmp, issues_count, issues, before, prev, last,
                   passes>>

Next ==
    \/ Load
    \/ Probe
    \/ ApplyFixes
    \/ Decline
    \/ SinglePass
    \/ CheckFixed
    \/ AdditionalPass
    \/ EndPasses
    \/ Finish

Spec == Init /\ [][Next]_vars

(***************************************************************************)
(* Validate+fix cycles on their own: process_items called in batch mode    *)
(* again and again on the documents the cycle before left in the store.    *)
(***************************************************************************)
MaxCycles == 3

\* App.process_items with --noninteractive set and --dry-run not set
Cycle ==
    /\ pc = "loaded"
    /\ found = "ok"
    /\ passes < MaxCycles
    /\ app' = ProcessItems(app, FALSE, TRUE, <<>>)
    /\ before' = Contents(app.docs, app.heap, 1)
    /\ prev' = app
    /\ last' = "batch"
    /\ passes' = passes + 1
    /\ IF app'.crashed
       THEN exit' = 1 /\ pc' = "done"
       ELSE exit' = exit /\ pc' = pc
    /\ UNCHANGED <<inputs, answer, results, tmp, issues_count, issues, written, backups>>

CycleNext ==
    \/ Load
    \/ Cycle

CycleSpec == Init /\ [][CycleNext]_vars

(***************************************************************************)
(* Passes on their own: process_items called in every mode, again and      *)
(* again, on market files whose items claim variants and duplicate each    *)
(* other in the ways the repairs tell apart.                               *)
(***************************************************************************)
MaxPassItems == 3
MaxReplies == 4

\* a duplicated identity with fewer and more variants and attachments and with
\* a blank variant name, a
\* variant claimed in two spellings and by two parents, a variant that is an
\* item, with and without variants of its own
PassItems ==
    {Item("a", List(<<>>), List(<<>>)),
     Item("a", List(<<"x">>), List(<<>>)),
     Item("a", List(<<>>), List(<<"g">>)),
     Item("a", List(<<"", "x">>), List(<<>>)),
     Item("A", List(<<"g", "x", "X">>), List(<<>>)),
     Item("b", List(<<"X">>), List(<<>>)),
     Item("b", List(<<"X", "x">>), List(<<"g", "h">>)),
     Item("x", List(<<>>), List(<<>>)),
     Item("x", List(<<"b">>), List(<<>>))}

\* such items in one market file, or split over two
PassFiles ==
    {<<Market(1, "Weapons", items)>> : items \in SeqsUpTo(PassItems, MaxPassItems)}
    \cup
    UNION {{<<Market(1, "Weapons", SubSeq(items, 1, k)),
              Market(1, "Ammo", SubSeq(items, k + 1, Len(items)))>> :
               k \in 1..(Len(items) - 1)} :
           items \in SeqsUpTo(PassItems, MaxPassItems)}

\* the user answers every prompt alike, or yes and no in turn
Replies ==
    {[j \in 1..MaxReplies |-> TRUE],
     [j \in 1..MaxReplies |-> FALSE],
     [j \in 1..MaxReplies |-> j % 2 = 1],
     [j \in 1..MaxReplies |-> j % 2 = 0]}

PassInit ==
    /\ found = "ok"
    /\ files \in PassFiles
    /\ options \in [dry : BOOLEAN, nonint : BOOLEAN]
    /\ replies \in IF ~options.dry /\ ~options.nonint THEN Replies ELSE {<<>>}
    /\ answer = ""
    /\ app = NewApp
    /\ pc = "start"
    /\ results = <<>>
    /\ tmp = [bound |-> FALSE, dry |-> FALSE, nonint |-> FALSE]
    /\ issues_count = 0
    /\ issues = <<>>
    /\ exit = -1
    /\ written = {}
    /\ backups = {}
    /\ before = <<>>
    /\ prev = NewApp
    /\ last = "none"
    /\ passes = 0

\* App.process_items(options); input() answers from replies
Pass ==
    /\ pc = "loaded"
    /\ passes < MaxCycles
    /\ app' = ProcessItems(app, options.dry, options.nonint, replies)
    /\ before' = Contents(app.docs, app.heap, 1)
    /\ prev' = app
    /\ last' = IF options.dry THEN "dry" ELSE IF options.nonint THEN "batch" ELSE "asked"
    /\ passes' = passes + 1
    /\ IF app'.crashed
       THEN exit' = 1 /\ pc' = "done"
       ELSE exit' = exit /\ pc' = pc
    /\ UNCHANGED <<inputs, answer, results, tmp, issues_count, issues, written, backups>>

PassNext ==
    \/ Load
    \/ Pass

PassSpec == PassInit /\ [][PassNext]_vars

(***************************************************************************)
(* The documents of the store, as the claims read them                     *)
(***************************************************************************)
\* the content of self.folders
Store == Contents(app.docs, app.heap, 1)

\* the market documents: objects without Categories whose Items is a list
MarketDocs == {j \in 1..Len(Store) : Store[j].shape = "dict" /\ HoldsItems(Store[j])}

\* the trader documents
TraderDocs ==
    {j \in 1..Len(Store) : Store[j].shape = "dict" /\ Store[j].Categories.t = "list"}

\* the places <<document, position>> of the item records that are objects with
\* list-typed Variants and SpawnAttachments
Places ==
    UNION {{<<j, k>> : k \in {n \in 1..Len(Store[j].Items.v) :
                               /\ Store[j].Items.v[n].obj
                               /\ Store[j].Items.v[n].Variants.t = "list"
                               /\ Store[j].Items.v[n].SpawnAttachments.t = "list"}}
           : j \in MarketDocs}

ItemAt(p) == Store[p[1]].Items.v[p[2]]

ClassNameOf(p) == Lower(ItemAt(p).ClassName)

VariantsOf(p) == {Lower(ItemAt(p).Variants.v[k]) : k \in 1..Len(ItemAt(p).Variants.v)}

AttachmentsOf(p) ==
    {Lower(ItemAt(p).SpawnAttachments.v[k]) : k \in 1..Len(ItemAt(p).SpawnAttachments.v)}

\* the run was allowed to fix (it was no --dry-run and the prompt, if any, was
\* answered yes), went through save_changes and ended with exit status 0
FixedAndFinished == pc = "done" /\ exit = 0 /\ ~options.dry

\* the index a new pass builds from the documents of the store
Rebuilt ==
    StructuralPass(BeginPass(app, TRUE, TRUE, <<>>), FolderSeq(app.docs, 1), 1)

(***************************************************************************)
(* Claims                                                                  *)
(***************************************************************************)
\* C1: a dry-run pass leaves every document of the store as it was, adds no
\* document to the store and counts no issue as fixed.
C1_DryRunChangesNothing ==
    last = "dry" =>
        /\ Store = before
        /\ app.fixed_count = 0
        /\ \A j \in 1..Len(app.issues) : app.issues[j].fixed_count = 0

\* C2: a second validate+fix cycle in batch mode, run on the documents the first
\* one left, changes no document and reports a fixed-count of zero.
C2_SecondCycleChangesNothing ==
    (passes = 2 /\ last = "batch" /\ ~app.crashed) =>
        (Store = before /\ app.fixed_count = 0)

\* C3: the convergence driver terminates: it is never about to start one more
\* cycle after MaxPasses cycles of which the last counted a fix and changed no
\* document (the next cycle reads the same documents and counts the same fix,
\* and so does every cycle after it).
C3_DriverTerminates ==
    ~(/\ pc = "additional"
      /\ app.fixed_count > 0
      /\ passes >= MaxPasses
      /\ Store = before)

\* C4: after a run that applied fixes and finished, no two item records of the
\* store have the same ClassName, compared case-insensitively.
C4_Uniqueness ==
    FixedAndFinished =>
        \A p \in Places : \A q \in Places : p # q => ClassNameOf(p) # ClassNameOf(q)

\* C5: after a run that applied fixes and finished, the index rebuilt from the
\* documents gives every variant name exactly one parent, and no item lists the
\* same variant name twice.
C5_SingleParent ==
    FixedAndFinished =>
        /\ \A v \in LowerNames : Len(Rebuilt.all_variants[v]) <= 1
        /\ \A p \in Places :
               \A k \in 1..Len(ItemAt(p).Variants.v) :
                  \A n \in 1..Len(ItemAt(p).Variants.v) :
                     k # n => Lower(ItemAt(p).Variants.v[k]) # Lower(ItemAt(p).Variants.v[n])

\* C6: after a run that applied fixes and finished, no item lists its own
\* ClassName among its Variants, compared case-insensitively.
C6_NoSelfClaim ==
    FixedAndFinished => \A p \in Places : ClassNameOf(p) \notin VariantsOf(p)

\* C7: after a run that applied fixes and finished, every name in an item's
\* SpawnAttachments is the ClassName or a variant name of an item of the store,
\* the placeholder items of the generated Missing_Attachments document included.
C7_AttachmentsResolve ==
    FixedAndFinished =>
        \A p \in Places : \A n \in AttachmentsOf(p) :
            \E q \in Places : n = ClassNameOf(q) \/ n \in VariantsOf(q)

\* C8: after a run that applied fixes and finished, a trader document that lists
\* a category lists the category of every item of a loaded document that an
\* item of that category names as an attachment: with item b in "Ammo" attached
\* to an item of "Weapons", a trader that lists "Weapons" lists "Ammo" as well.
C8_CategoryCompleteness ==
    FixedAndFinished =>
        \A t \in TraderDocs : \A p \in Places : \A q \in Places :
            (/\ \E c \in 1..Len(Store[t].Categories.v) :
                    Lower(Store[t].Categories.v[c].name) = Lower(Store[p[1]].file)
             /\ ClassNameOf(q) \in AttachmentsOf(p)
             /\ Store[q[1]].file # MissingFile)
            => \E c \in 1..Len(Store[t].Categories.v) :
                   Lower(Store[t].Categories.v[c].name) = Lower(Store[q[1]].file)

\* C9: the run ends with exit status 1 when issues were found and not all of
\* them fixed (a --dry-run that found issues fixes none), when a folder could
\* not be loaded, and when the user declined to fix.
C9_ExitStatus ==
    pc = "done" =>
        ((\/ issues_count > 0 /\ (options.dry \/ app.fixed_count < issues_count)
          \/ found # "ok"
          \/ answer = "n")
         => exit = 1)

\* C10: when the user declines the fixes, the run ends with exit status 1,
\* nothing is written or backed up, and every document is as it was loaded.
C10_DeclineChangesNothing ==
    answer = "n" =>
        /\ exit = 1
        /\ written = {} /\ backups = {}
        /\ Store = files

(***************************************************************************)
(* One pass, as the claims read it: prev is the App object when the pass   *)
(* began, app the App object when it ended.                                *)
(***************************************************************************)
\* the item objects of the market documents of an App object, in
\* folder-then-document-then-item order
RECURSIVE ItemIds(_, _)
ItemIds(a, d) ==
    IF d > Len(a.docs) THEN <<>>
    ELSE IF a.docs[d].live /\ a.docs[d].shape = "dict" /\ HoldsItems(a.docs[d])
    THEN a.docs[d].Items.v \o ItemIds(a, d + 1)
    ELSE ItemIds(a, d + 1)

\* the item records the pass began with that are in a document when it ends
Kept == SelectSeq(ItemIds(prev, 1), LAMBDA id : InSeq(id, ItemIds(app, 1)))

\* a pass that confirms every fix has ended
BatchPassDone == last = "batch" /\ ~app.crashed

\* an item record the structural pass registers or takes for a duplicate: an
\* object with a ClassName and with lists for Variants and SpawnAttachments
WellFormed(item) ==
    /\ item.obj
    /\ ~IsBlank(item.ClassName)
    /\ anyascii(item.ClassName) = item.ClassName
    /\ item.Variants.t = "list"
    /\ item.SpawnAttachments.t = "list"

\* the pass began with two item records, and they have the same identity
TwoOccurrences ==
    /\ Len(ItemIds(prev, 1)) = 2
    /\ \A j \in 1..2 : WellFormed(prev.heap[ItemIds(prev, 1)[j]])
    /\ Lower(prev.heap[ItemIds(prev, 1)[1]].ClassName)
           = Lower(prev.heap[ItemIds(prev, 1)[2]].ClassName)

\* len(Variants) + len(SpawnAttachments) of an item when the pass began
CombinedCount(id) ==
    Len(prev.heap[id].Variants.v) + Len(prev.heap[id].SpawnAttachments.v)

\* the later occurrence had more variants, or more attachments, than the
\* earlier one has once registered (its blank variant names are gone by then)
MoreOfEither(early, late) ==
    \/ Len(SelectSeq(prev.heap[early].Variants.v, LAMBDA n : ~IsBlank(n)))
           < Len(prev.heap[late].Variants.v)
    \/ Len(prev.heap[early].SpawnAttachments.v) < Len(prev.heap[late].SpawnAttachments.v)

\* C11 as stated: of two occurrences of an identity the one with the larger
\* combined count len(Variants) + len(SpawnAttachments) is kept, the already
\* registered one on a tie, and the other is removed from its document.
C11_KeptByCombinedCount ==
    (BatchPassDone /\ TwoOccurrences) =>
        Kept =
            IF CombinedCount(ItemIds(prev, 1)[1]) < CombinedCount(ItemIds(prev, 1)[2])
            THEN <<ItemIds(prev, 1)[2]>>
            ELSE <<ItemIds(prev, 1)[1]>>

\* C11 amended: the new occurrence is kept when the already registered one has
\* fewer variants or fewer attachments than it, each count compared on its own
\* (the registered one counted without the blank variant names its registration
\* removed); otherwise the already registered one is kept.  The other is removed from its
\* document.
C11_KeptByEitherCount ==
    (BatchPassDone /\ TwoOccurrences) =>
        Kept =
            IF MoreOfEither(ItemIds(prev, 1)[1], ItemIds(prev, 1)[2])
            THEN <<ItemIds(prev, 1)[2]>>
            ELSE <<ItemIds(prev, 1)[1]>>

\* C11 witness: the new occurrence was kept although its combined count is not
\* the larger one.
C11_Witness ==
    /\ BatchPassDone /\ TwoOccurrences
    /\ CombinedCount(ItemIds(prev, 1)[2]) <= CombinedCount(ItemIds(prev, 1)[1])
    /\ Kept = <<ItemIds(prev, 1)[2]>>

\* the item lists the name among its Variants, compared in lower case
Lists(a, id, x) ==
    \E k \in 1..Len(a.heap[id].Variants.v) : Lower(a.heap[id].Variants.v[k]) = x

\* the items that list the name, in folder-then-document-then-item order
Claimers(a, x) == SelectSeq(ItemIds(a, 1), LAMBDA id : Lists(a, id, x))

\* every item record is well formed and no two have the same identity, so
\* that the structural pass registers every one of them
AllRegistered(a) ==
    /\ \A j \in 1..Len(ItemIds(a, 1)) : WellFormed(a.heap[ItemIds(a, 1)[j]])
    /\ \A j \in 1..Len(ItemIds(a, 1)) : \A k \in 1..Len(ItemIds(a, 1)) :
           j # k => Lower(a.heap[ItemIds(a, 1)[j]].ClassName)
                        # Lower(a.heap[ItemIds(a, 1)[k]].ClassName)

\* an item with this identity lists variants of its own
HasOwnVariants(a, x) ==
    \E j \in 1..Len(ItemIds(a, 1)) :
        /\ Lower(a.heap[ItemIds(a, 1)[j]].ClassName) = x
        /\ a.heap[ItemIds(a, 1)[j]].Variants.v # <<>>

\* the name is listed by two or more parents and has no variants of its own
MultiClaimed(x) ==
    /\ AllRegistered(prev)
    /\ Len(Claimers(prev, x)) >= 2
    /\ ~HasOwnVariants(prev, x)

\* nothing is wrong with the Variants of the item: every name in it is listed
\* once, by this item only, is not the item's own and has no variants of its own
Sound(id) ==
    \A k \in 1..Len(prev.heap[id].Variants.v) :
        /\ Claimers(prev, Lower(prev.heap[id].Variants.v[k])) = <<id>>
        /\ \A n \in 1..Len(prev.heap[id].Variants.v) :
               n # k => Lower(prev.heap[id].Variants.v[n]) # Lower(prev.heap[id].Variants.v[k])
        /\ Lower(prev.heap[id].Variants.v[k]) # Lower(prev.heap[id].ClassName)
        /\ ~HasOwnVariants(prev, Lower(prev.heap[id].Variants.v[k]))

\* C12: a variant name without variants of its own that two or more distinct
\* parents list stays, after a batch pass, with the parent that comes first in
\* folder-then-document-then-item order and is gone from every other parent
\* that listed it; the Variants of items that list only names nothing is wrong
\* with are as they were.
C12_FirstClaimKept ==
    BatchPassDone =>
        \A x \in LowerNames :
            MultiClaimed(x) =>
                /\ Lists(app, Claimers(prev, x)[1], x)
                /\ \A j \in 2..Len(Claimers(prev, x)) : ~Lists(app, Claimers(prev, x)[j], x)
                /\ \A j \in 1..Len(ItemIds(prev, 1)) :
                       Sound(ItemIds(prev, 1)[j]) =>
                           app.heap[ItemIds(prev, 1)[j]].Variants
                               = prev.heap[ItemIds(prev, 1)[j]].Variants

\* a pass that may repair (no --dry-run) has ended
FixingPassDone == last \in {"batch", "asked"} /\ ~app.crashed

\* the document is a key of self.modified_files
InModified(a, d) ==
    \E m \in a.modified_files : m.folder = a.docs[d].folder /\ m.file = a.docs[d].file

\* the pass changed the content of the document
Changed(d) ==
    \/ Content(app.docs[d], app.heap) # Content(prev.docs[d], prev.heap)
    \/ app.docs[d].live # prev.docs[d].live

\* C13: every document whose content a pass without --dry-run changed is in
\* modified_files when the pass ends.
C13_ChangedIsModified ==
    FixingPassDone =>
        \A d \in 1..Len(prev.docs) : Changed(d) => InModified(app, d)

\* the issues of the ledger that the last pass raised (the ledger keeps the
\* critical issues of earlier passes)
RaisedNow(j) ==
    SelectSeq(app.issues[j].list, LAMBDA issue : issue.id >= prev.next_issue)

\* C14: after a batch pass (--noninteractive, no --dry-run) every issue the
\* pass raised is marked fixed, whichever document it belongs to.
C14_BatchMarksRaisedFixed ==
    BatchPassDone =>
        \A j \in 1..Len(app.issues) :
            \A n \in 1..Len(RaisedNow(j)) : RaisedNow(j)[n].fixed

\* an interactive pass (no --dry-run, no --noninteractive) has ended and the
\* user gave the same answer to every prompt
AnsweredAlike(yes) ==
    /\ last = "asked"
    /\ ~app.crashed
    /\ \A n \in 1..Len(replies) : replies[n] = yes

\* the issues of the last pass the user was asked about
Asked(j) == SelectSeq(RaisedNow(j), LAMBDA issue : ~issue.critical)

\* the document of the j-th ledger entry is a key of self.modified_files
LedgerInModified(j) ==
    \E m \in app.modified_files :
        m.folder = app.issues[j].folder /\ m.file = app.issues[j].file

\* the j-th ledger entry is the one of document d
Owns(d, j) ==
    /\ prev.docs[d].folder = app.issues[j].folder
    /\ prev.docs[d].file = app.issues[j].file

\* C15: in an interactive pass, answering "no" to every issue leaves the
\* content of every document that owns an issue unchanged, the issue unfixed
\* and the document out of the modified set unless it was in it before;
\* answering "yes" to every issue marks each of them fixed and puts its
\* document into the modified set.
C15_AnswerDecides ==
    /\ (AnsweredAlike(FALSE) /\ \A j \in 1..Len(app.issues) : Asked(j) = RaisedNow(j)) =>
           \A j \in 1..Len(app.issues) :
               /\ \A d \in 1..Len(prev.docs) :
                      (Asked(j) # <<>> /\ Owns(d, j)) =>
                          /\ ~Changed(d)
                          /\ InModified(app, d) => InModified(prev, d)
               /\ \A n \in 1..Len(Asked(j)) : ~Asked(j)[n].fixed
    /\ (AnsweredAlike(TRUE) /\ app.issues_count <= Len(replies)) =>
           \A j \in 1..Len(app.issues) :
               Asked(j) # <<>> =>
                   /\ LedgerInModified(j)
                   /\ \A n \in 1..Len(Asked(j)) : Asked(j)[n].fixed

\* how often the Variants of the item hold the name, in any spelling
Occurrences(a, id, x) ==
    Len(SelectSeq(a.heap[id].Variants.v, LAMBDA variant : Lower(variant) = x))

\* the only thing wrong with the Variants of the item is that names are
\* listed more than once: every name in it is spelled in ascii, is not blank,
\* is listed by this item only, is not the item's own and has no variants of
\* its own
OnlyDuplicates(id) ==
    /\ AllRegistered(prev)
    /\ \E x \in LowerNames : Occurrences(prev, id, x) > 1
    /\ \A k \in 1..Len(prev.heap[id].Variants.v) :
           /\ ~IsBlank(prev.heap[id].Variants.v[k])
           /\ anyascii(prev.heap[id].Variants.v[k]) = prev.heap[id].Variants.v[k]
           /\ Claimers(prev, Lower(prev.heap[id].Variants.v[k])) = <<id>>
           /\ Lower(prev.heap[id].Variants.v[k]) # Lower(prev.heap[id].ClassName)
           /\ ~HasOwnVariants(prev, Lower(prev.heap[id].Variants.v[k]))

\* C16: after a batch pass, a parent whose Variants listed a name more than
\* once lists it exactly once, wherever the name stood in the list, and lists
\* every other name as often as before.
C16_OneOccurrenceLeft ==
    BatchPassDone =>
        \A j \in 1..Len(ItemIds(prev, 1)) :
            OnlyDuplicates(ItemIds(prev, 1)[j]) =>
                \A x \in LowerNames :
                    Occurrences(app, ItemIds(prev, 1)[j], x)
                        = IF Occurrences(prev, ItemIds(prev, 1)[j], x) > 1
                          THEN 1
                          ELSE Occurrences(prev, ItemIds(prev, 1)[j], x)

\* the App object of the last pass when its structural pass had ended
AfterStructural ==
    StructuralPass(BeginPass(prev, options.dry, options.nonint, replies),
                   FolderSeq(prev.docs, 1), 1)

\* s is t with some of its elements left out
RECURSIVE IsSubseq(_, _)
IsSubseq(s, t) ==
    IF s = <<>> THEN TRUE
    ELSE IF t = <<>> THEN FALSE
    ELSE IF Head(s) = Head(t) THEN IsSubseq(Tail(s), Tail(t))
    ELSE IsSubseq(s, Tail(t))

\* the name as a key of the index: lower case, before or after _fix_nonascii
IsKey(x, name) == x = Lower(name) \/ x = Lower(anyascii(name))

\* how often the items with identity p that a document held when the pass
\* began list the name x
Claims(p, x) ==
    Cardinality(UNION {
        {<<id, k>> : k \in {n \in 1..Len(prev.heap[id].Variants.v) :
                                 IsKey(x, prev.heap[id].Variants.v[n])}} :
        id \in {i \in 1..Len(prev.heap) :
                    /\ InSeq(i, ItemIds(prev, 1))
                    /\ IsKey(p, prev.heap[i].ClassName)}})

\* a pass has run
PassDone == last # "none"

\* C17 as stated: when a pass ends the index is as the structural pass of
\* that pass left it.
C17_IndexUntouched ==
    PassDone =>
        /\ app.all_parents = AfterStructural.all_parents
        /\ app.all_variants = AfterStructural.all_variants

\* C17: the index is rebuilt from the documents in every pass, and after the
\* structural pass the identity map is not changed and the lists of parents
\* only lose entries: a variant has no parent more often than the items of
\* the documents list it, and its parents when the pass ends are parents the
\* structural pass gave it, in the same order.
C17_IndexOnlyShrinks ==
    PassDone =>
        /\ app.all_parents = AfterStructural.all_parents
        /\ \A x \in LowerNames :
               /\ IsSubseq(app.all_variants[x], AfterStructural.all_variants[x])
               /\ \A p \in LowerNames :
                      Len(SelectSeq(app.all_variants[x], LAMBDA q : q = p)) <= Claims(p, x)

\* the relational pass of a pass that ended has removed a parent from the index
C17_Witness ==
    /\ PassDone
    /\ ~app.crashed
    /\ \E x \in LowerNames :
           Len(app.all_variants[x]) < Len(AfterStructural.all_variants[x])

\* the documents whose Items hold the item record
HeldBy(a, id) ==
    {d \in 1..Len(a.docs) :
        /\ a.docs[d].live
        /\ a.docs[d].shape = "dict"
        /\ HoldsItems(a.docs[d])
        /\ InSeq(id, a.docs[d].Items.v)}

\* the pass began with the item record `variant` in another document than
\* the item `parent`, the one item that claims it; the variant has no
\* variants of its own and the parent is nobody's variant
InOtherDocument(parent, variant) ==
    /\ AllRegistered(prev)
    /\ parent # variant
    /\ Claimers(prev, Lower(prev.heap[variant].ClassName)) = <<parent>>
    /\ prev.heap[variant].Variants.v = <<>>
    /\ Claimers(prev, Lower(prev.heap[parent].ClassName)) = <<>>
    /\ HeldBy(prev, parent) # HeldBy(prev, variant)

\* C18: a batch pass that finds a variant's item record in another document
\* than its one claiming parent ends without an internal failure, also when
\* the parent lists the name twice; afterwards the record is in the parent's
\* document and in no other, and every item record the pass began with is in
\* exactly one document.
C18_MovedToParent ==
    last = "batch" =>
        \A parent \in 1..Len(prev.heap) : \A variant \in 1..Len(prev.heap) :
            (/\ InSeq(parent, ItemIds(prev, 1))
             /\ InSeq(variant, ItemIds(prev, 1))
             /\ InOtherDocument(parent, variant)) =>
                /\ ~app.crashed
                /\ HeldBy(app, variant) = HeldBy(prev, parent)
                /\ \A j \in 1..Len(ItemIds(prev, 1)) :
                       Len(SelectSeq(ItemIds(app, 1),
                                     LAMBDA id : id = ItemIds(prev, 1)[j])) = 1

\* the pass began with a trader document and with market documents that are
\* objects whose item records are all well formed and of distinct identities
TraderOverSoundMarket ==
    /\ \E d \in 1..Len(prev.docs) : prev.docs[d].Categories.t = "list"
    /\ \A d \in 1..Len(prev.docs) : prev.docs[d].shape = "dict"
    /\ AllRegistered(prev)

\* C19: a --dry-run pass over a trader document and sound market documents
\* ends without an internal failure, whatever the SpawnAttachments of the
\* items refer to, an item that attaches itself and two items that attach
\* each other included.
C19_TraderWalkEnds ==
    (last = "dry" /\ TraderOverSoundMarket) => ~app.crashed

\* C20: when a pass has ended, in any mode, no more issues are counted as
\* fixed than the pass raised, and for no document more than its ledger
\* entry holds.
C20_FixedWithinIssues ==
    PassDone =>
        /\ app.fixed_count <= app.issues_count
        /\ \A j \in 1..Len(app.issues) :
               app.issues[j].fixed_count <= Len(app.issues[j].list)

====
